---- MODULE Spec2Model ----
(***************************************************************************)
(* macrodb: the insert / update / delete protocol that the table! macro    *)
(* generates, interpreted over the table declarations of the crate's own   *)
(* tests.  The per-kind macros (table_insert_check!, table_insert_index!,   *)
(* table_delete_index!, ...) are operators over the index kind; the         *)
(* repetition `$( ... )*` over the declared indices is a walk over the      *)
(* declaration sequence in declaration order.                              *)
(***************************************************************************)
EXTENDS Integers, Sequences, FiniteSets, TLC

\* ---------------------------------------------------------------- bounds
MaxUserId == 1
MaxGroupId == 1

\* ------------------------------------------------------------ integer keys
\* A 64-bit key is the sequence of its four 16-bit limbs, most significant
\* first: the bit pattern the machine holds, for u64 and for i64 alike.
Limb == 65536

\* the key of value n, for 0 <= n < Limb
U64(n) == <<0, 0, 0, n>>

\* u64::MAX and i64::MAX
U64Max == <<Limb - 1, Limb - 1, Limb - 1, Limb - 1>>

I64Max == <<Limb \div 2 - 1, Limb - 1, Limb - 1, Limb - 1>>

\* <$type as Default>::default() of an integer key type
KeyZero == U64(0)

\* the largest value of the key type, the one `+ 1` overflows at
KeyTop(keyty) == IF keyty = "i64" THEN I64Max ELSE U64Max

\* the leading limb as the order of the key type sees it: the sign bit of an
\* i64 puts the negative patterns below the others
Lead(keyty, k) == IF keyty = "i64" THEN (k[1] + Limb \div 2) % Limb ELSE k[1]

\* Ord::lt of the key type
KeyLess(keyty, a, b) ==
    \/ Lead(keyty, a) < Lead(keyty, b)
    \/ /\ a[1] = b[1]
       /\ \E i \in 2..4 : a[i] < b[i] /\ \A j \in 2..(i - 1) : a[j] = b[j]

\* Iterator::max over a non-empty set of keys
KeyMax(keyty, S) == CHOOSE k \in S : \A j \in S : j = k \/ KeyLess(keyty, j, k)

\* key + 1 on the bit pattern, the carry running through the limbs and out
\* of the top one: what the machine's add gives, wrapping included
WrappingAddOne(k) ==
    IF k[4] < Limb - 1 THEN <<k[1], k[2], k[3], k[4] + 1>>
    ELSE IF k[3] < Limb - 1 THEN <<k[1], k[2], k[3] + 1, 0>>
    ELSE IF k[2] < Limb - 1 THEN <<k[1], k[2] + 1, 0, 0>>
    ELSE <<(k[1] + 1) % Limb, 0, 0, 0>>

UserIds == {U64(n) : n \in 0..MaxUserId}
GroupIds == {U64(n) : n \in 0..MaxGroupId}
Names == {"alice", "bob", "carol"}
Emails == {"a@x.com", "b@x.com"}
Ages == {21}
GroupNames == {"admin", "staff"}

\* ---------------------------------------------------------- record types
\* struct User / struct Group of the two-table test database
User == [id : UserIds, group : GroupIds, name : Names, email : Emails, age : Ages]

Group == [id : GroupIds, name : GroupNames, privileged : BOOLEAN]

\* the table keyed by caller-supplied String ids: type UserId = String
CloneUserIds == {"id", "other"}
CloneNames == {"name", "other"}
CloneAges == {21, 22}

\* struct User of the String-keyed database
CloneUser == [id : CloneUserIds, name : CloneNames, age : CloneAges]

\* ------------------------------------------------------------ containers
\* Map::default(): the map with no entries
EmptyMap == [k \in {} |-> k]

\* map.get(&k).is_some()
Has(m, k) == k \in DOMAIN m

\* map.insert(k, v): adds or overwrites the entry of k
MapInsert(m, k, v) == [x \in (DOMAIN m) \cup {k} |-> IF x = k THEN v ELSE m[x]]

\* map.remove(&k): drops the entry of k when there is one
MapRemove(m, k) == [x \in (DOMAIN m) \ {k} |-> m[x]]

\* ---------------------------------------------------------------- results
NoRow == [none |-> TRUE]

Unit == [unit |-> TRUE]

Ok(v) == [tag |-> "Ok", err |-> "", val |-> v]

Err(e) == [tag |-> "Err", err |-> e, val |-> NoRow]

Panic(msg) == [tag |-> "Panic", err |-> msg, val |-> NoRow]

\* ----------------------------------------------------------- declarations
\* one `$itype $name $prop => $err` line of a table! invocation
Decl(itype, name, prop, err) ==
    [itype |-> itype, name |-> name, prop |-> <<prop>>, err |-> err]

\* one `$itype $name ($prop, ...) => $err` line: the index is over a tuple of fields
Compound(itype, name, props, err) ==
    [itype |-> itype, name |-> name, prop |-> props, err |-> err]

\* `$data.$prop`, and for a tuple of fields `($data.$prop, ...)`: the value the
\* index is keyed by
\* mutant of the tuple key: the first field alone is the key
compound_key_first(data, props) == <<data[props[1]]>>

\* `($data.$a, $data.$b)`: the key of an index over a tuple of fields
compound_key(data, props) == [i \in 1..Len(props) |-> data[props[i]]]

\* `$data.$prop`: the value a declaration looks at; `_` stands for the whole
\* record, which is what a constraint is handed
Field(data, prop) ==
    CASE prop = <<"_">> -> data
      [] Len(prop) > 1  -> compound_key(data, prop)
      [] OTHER          -> data[prop[1]]

\* table!(users: User, id: UserId, missing Error => Error::UserNotFound, ...)
UsersTable ==
    [ table |-> "users", type |-> User, pk |-> "id", pkty |-> UserIds,
      keyty |-> "u64", autokey |-> TRUE,
      missing |-> "UserNotFound",
      indices |-> << Decl("primary", "users", "id", "UserIdExists"),
                     Decl("unique", "user_by_email", "email", "UserEmailExists"),
                     Decl("unique", "user_by_name", "name", "UserNameExists"),
                     Decl("foreign", "groups", "group", "GroupNotFound"),
                     Decl("index", "users_by_age", "age", "()"),
                     Decl("index", "users_by_group", "group", "()") >> ]

\* table!(groups: Group, id: GroupId, missing Error => Error::GroupNotFound, ...)
GroupsTable ==
    [ table |-> "groups", type |-> Group, pk |-> "id", pkty |-> GroupIds,
      keyty |-> "u64", autokey |-> TRUE,
      missing |-> "GroupNotFound",
      indices |-> << Decl("primary", "groups", "id", "GroupIdExists"),
                     Decl("unique", "group_by_name", "name", "GroupNameExists"),
                     Decl("reverse", "users_by_group", "id", "GroupNotEmpty"),
                     Decl("index", "groups_by_privileged", "privileged", "()") >> ]

\* StdDatabase::default()
StdDatabase ==
    [ users |-> EmptyMap, user_by_email |-> EmptyMap, user_by_name |-> EmptyMap,
      users_by_age |-> EmptyMap, users_by_group |-> EmptyMap,
      groups |-> EmptyMap, group_by_name |-> EmptyMap,
      groups_by_privileged |-> EmptyMap ]

\* table!(users: User, id: UserId, noautokey, missing Error => Error::UserNotFound, ...)
CloneUsersTable ==
    [ table |-> "users", type |-> CloneUser, pk |-> "id", pkty |-> CloneUserIds,
      keyty |-> "String", autokey |-> FALSE,
      missing |-> "UserNotFound",
      indices |-> << Decl("primary", "users", "id", "UserIdExists"),
                     Decl("index", "users_by_age", "age", "()"),
                     Decl("unique", "user_by_name", "name", "UserNameExists") >> ]

\* Database::default() of the String-keyed database
CloneDatabase == [ users |-> EmptyMap, user_by_name |-> EmptyMap, users_by_age |-> EmptyMap ]

\* the one-table database of the crate's unit tests: any u64 is a key, the
\* largest one included
TestsUserIds == {U64(0), U64(1), U64Max}
TestsNames == {"user"}
TestsAges == {21, 22}

\* struct User of the unit tests
TestsUser == [id : TestsUserIds, name : TestsNames, email : Emails, age : TestsAges]

\* table!(users: User, id: UserId, missing UserError => UserError::UserNotFound, ...)
TestsUsersTable ==
    [ table |-> "users", type |-> TestsUser, pk |-> "id", pkty |-> TestsUserIds,
      keyty |-> "u64", autokey |-> TRUE,
      missing |-> "UserNotFound",
      indices |-> << Decl("primary", "users", "id", "UserIdExists"),
                     Decl("unique", "user_by_email", "email", "UserEmailExists"),
                     Decl("index", "users_by_age", "age", "()"),
                     Decl("index", "users_by_name", "name", "()") >> ]

\* Users::default()
TestsDatabase ==
    [ users |-> EmptyMap, user_by_email |-> EmptyMap, users_by_age |-> EmptyMap,
      users_by_name |-> EmptyMap ]

\* the database with a constraint: type UserId = i64
ConstraintUserIds == {U64(0), U64(1), I64Max}
ConstraintNames == {"", "John", "name"}

\* struct User of the database with a constraint
ConstraintUser == [id : ConstraintUserIds, name : ConstraintNames]

\* table!(users: User, id: UserId, ..., constraint check_user _ => ())
ConstraintUsersTable ==
    [ table |-> "users", type |-> ConstraintUser, pk |-> "id", pkty |-> ConstraintUserIds,
      keyty |-> "i64", autokey |-> TRUE,
      missing |-> "UserNotFound",
      indices |-> << Decl("primary", "users", "id", "UserIdExists"),
                     Decl("unique", "user_by_name", "name", "UserNameExists"),
                     Decl("constraint", "check_user", "_", "()") >> ]

\* Database::default() of the database with a constraint
ConstraintDatabase == [ users |-> EmptyMap, user_by_name |-> EmptyMap ]

\* the database with indices over tuples of fields
CompoundUserIds == {U64(0), U64(1)}
Firsts == {"John", "Jane"}
Lasts == {"Doe", "Roe"}
Cities == {"Atlantic City", "Elsewhere"}
Countries == {"United States", "Canada"}

\* struct User of the database with compound indices
CompoundUser ==
    [id : CompoundUserIds, first : Firsts, last : Lasts, age : Ages, city : Cities,
     country : Countries]

\* table!(users: User, id: UserId, ..., index users_by_location (city, country) => (), ...)
CompoundUsersTable ==
    [ table |-> "users", type |-> CompoundUser, pk |-> "id", pkty |-> CompoundUserIds,
      keyty |-> "u64", autokey |-> TRUE,
      missing |-> "UserNotFound",
      indices |-> << Decl("primary", "users", "id", "UserIdExists"),
                     Compound("index", "users_by_location", <<"city", "country">>, "()"),
                     Compound("unique", "user_by_name", <<"first", "last">>,
                              "UserNameExists"),
                     Decl("index", "users_by_age", "age", "()") >> ]

\* Database::default() of the database with compound indices
CompoundDatabase ==
    [ users |-> EmptyMap, user_by_name |-> EmptyMap, users_by_age |-> EmptyMap,
      users_by_location |-> EmptyMap ]

\* the two-table database of the table! documentation
DocUserIds == {U64(0), U64(1)}
DocGroupIds == {U64(0), U64(1)}

\* struct User and struct Group of the documentation
DocUser == [id : DocUserIds, name : TestsNames, email : Emails, group : DocGroupIds]

DocGroup == [id : DocGroupIds, name : GroupNames]

\* table!(users: User, id: UserId, ...) of the documentation
DocUsersTable ==
    [ table |-> "users", type |-> DocUser, pk |-> "id", pkty |-> DocUserIds,
      keyty |-> "u64", autokey |-> TRUE,
      missing |-> "UserNotFound",
      indices |-> << Decl("primary", "users", "id", "UserIdExists"),
                     Decl("foreign", "groups", "group", "GroupNotFound"),
                     Decl("index", "users_by_group", "group", "()"),
                     Decl("unique", "user_by_email", "email", "UserEmailExists") >> ]

\* table!(groups: Group, id: GroupId, ..., primary users id => Error::GroupIdExists, ...)
\* of the documentation: the primary declaration names the users map
DocGroupsTable ==
    [ table |-> "groups", type |-> DocGroup, pk |-> "id", pkty |-> DocGroupIds,
      keyty |-> "u64", autokey |-> TRUE,
      missing |-> "GroupNotFound",
      indices |-> << Decl("primary", "users", "id", "GroupIdExists"),
                     Decl("reverse", "users_by_group", "id", "GroupNotEmpty"),
                     Decl("unique", "group_by_name", "name", "GroupNameExists") >> ]

\* the empty Database of the documentation
DocDatabase ==
    [ users |-> EmptyMap, user_by_email |-> EmptyMap, groups |-> EmptyMap,
      users_by_group |-> EmptyMap, group_by_name |-> EmptyMap ]

\* the database structs under test, and the tables each declares
Schemas == {"std", "clone", "tests", "constraint", "compound"}

Default(s) ==
    CASE s = "std"        -> StdDatabase
      [] s = "clone"      -> CloneDatabase
      [] s = "tests"      -> TestsDatabase
      [] s = "constraint" -> ConstraintDatabase
      [] s = "compound"   -> CompoundDatabase
      [] s = "doc"        -> DocDatabase

Tables(s) ==
    CASE s = "std"        -> {UsersTable, GroupsTable}
      [] s = "clone"      -> {CloneUsersTable}
      [] s = "tests"      -> {TestsUsersTable}
      [] s = "constraint" -> {ConstraintUsersTable}
      [] s = "compound"   -> {CompoundUsersTable}
      [] s = "doc"        -> {DocUsersTable, DocGroupsTable}

\* ------------------------------------------------------------- constraints
\* fn check_user(&self, row: &User) -> Result<(), Error>
check_user(self, row) == IF row.name = "" THEN Err("UserNameEmpty") ELSE Ok(Unit)

\* `self.$name(&row)`: the call of the method a constraint declaration names
constraint_call(self, name, row) ==
    CASE name = "check_user" -> check_user(self, row)

\* mutants of the constraint kind: the predicate is not run
constraint_insert_check_skipped(self, name, data) == Ok(Unit)

constraint_update_check_skipped(self, name, old, new) == Ok(Unit)

\* the constraint kind on insert: the predicate decides on the full record,
\* and its error is the error of the insert
constraint_insert_check(self, name, data) == constraint_call(self, name, data)

\* the constraint kind on update: the predicate decides on the new record
constraint_update_check(self, name, old, new) == constraint_call(self, name, new)

\* ------------------------------------------------------------ key generator
\* pub fn $table_next_id(&self) -> $type: the values a call can come back
\* with.  `*key + 1` on the largest key of the type overflows: a build with
\* overflow checks panics there, a build without them wraps around.
table_next_id(self, T) ==
    IF DOMAIN self[T.table] = {} THEN {Ok(KeyZero)}
    ELSE LET key == KeyMax(T.keyty, DOMAIN self[T.table])
         IN  IF key = KeyTop(T.keyty)
             THEN {Panic("attempt to add with overflow"), Ok(WrappingAddOne(key))}
             ELSE {Ok(WrappingAddOne(key))}

\* ------------------------------------------------------------ insert checks
\* mutants of table_insert_check!: one kind's check left out
table_insert_check_no_primary(self, itype, table, expr, err) ==
    CASE itype = "foreign" -> IF ~Has(self[table], expr) THEN Err(err) ELSE Ok(Unit)
      [] itype = "unique"  -> IF Has(self[table], expr) THEN Err(err) ELSE Ok(Unit)
      [] OTHER -> Ok(Unit)

table_insert_check_no_unique(self, itype, table, expr, err) ==
    CASE itype = "foreign" -> IF ~Has(self[table], expr) THEN Err(err) ELSE Ok(Unit)
      [] itype = "primary" -> IF Has(self[table], expr) THEN Err(err) ELSE Ok(Unit)
      [] OTHER -> Ok(Unit)

table_insert_check_no_foreign(self, itype, table, expr, err) ==
    CASE itype = "unique"  -> IF Has(self[table], expr) THEN Err(err) ELSE Ok(Unit)
      [] itype = "primary" -> IF Has(self[table], expr) THEN Err(err) ELSE Ok(Unit)
      [] OTHER -> Ok(Unit)

\* table_insert_check!: Err when the check returns early, Ok when it falls through
table_insert_check(self, itype, table, expr, err) ==
    CASE itype = "foreign" -> IF ~Has(self[table], expr) THEN Err(err) ELSE Ok(Unit)
      [] itype = "unique"  -> IF Has(self[table], expr) THEN Err(err) ELSE Ok(Unit)
      [] itype = "primary" -> IF Has(self[table], expr) THEN Err(err) ELSE Ok(Unit)
      [] itype = "reverse" -> Ok(Unit)
      [] itype = "index"   -> Ok(Unit)
      [] itype = "constraint" -> constraint_insert_check(self, table, expr)

RECURSIVE insert_check_from(_, _, _, _)
insert_check_from(self, decls, data, i) ==
    IF i > Len(decls) THEN Ok(Unit)
    ELSE LET d == decls[i]
             r == table_insert_check(self, d.itype, d.name, Field(data, d.prop), d.err)
         IN  IF r.tag # "Ok" THEN r ELSE insert_check_from(self, decls, data, i + 1)

\* mutant of $table_insert_check: the checks run in the opposite order
table_insert_checks_backwards(self, T, data) ==
    insert_check_from(self, [i \in 1..Len(T.indices) |-> T.indices[Len(T.indices) + 1 - i]],
                      data, 1)

\* fn $table_insert_check(&mut self, data) -> Result<(), $errty>
table_insert_checks(self, T, data) == insert_check_from(self, T.indices, data, 1)

\* ---------------------------------------------------------- index insertion
\* An index step yields the database it leaves and the panic it raised ("" for none).
Step(db, panic) == [db |-> db, panic |-> panic]

\* mutant of table_insert_index!: a grouping set is replaced, not extended
table_insert_index_replacing(self, pk, itype, name, prop) ==
    CASE itype = "unique" ->
            Step([self EXCEPT ![name] = MapInsert(@, prop, pk)],
                 IF Has(self[name], prop) THEN "index entry already existsted" ELSE "")
      [] itype = "index" -> Step([self EXCEPT ![name] = MapInsert(@, prop, {pk})], "")
      [] OTHER -> Step(self, "")

\* mutants of table_insert_index!: a unique index is not written; the reverse
\* kind is written as a grouping index is
table_insert_index_no_unique(self, pk, itype, name, prop) ==
    CASE itype = "index" ->
            IF Has(self[name], prop) /\ pk \in self[name][prop]
            THEN Step(self, "index already had new user")
            ELSE Step([self EXCEPT ![name] =
                          MapInsert(@, prop,
                                    (IF Has(self[name], prop) THEN self[name][prop] ELSE {})
                                        \cup {pk})], "")
      [] OTHER -> Step(self, "")

table_insert_index_reverse_as_index(self, pk, itype, name, prop) ==
    CASE itype = "unique" ->
            Step([self EXCEPT ![name] = MapInsert(@, prop, pk)],
                 IF Has(self[name], prop) THEN "index entry already existsted" ELSE "")
      [] itype \in {"index", "reverse"} ->
            IF Has(self[name], prop) /\ pk \in self[name][prop]
            THEN Step(self, "index already had new user")
            ELSE Step([self EXCEPT ![name] =
                          MapInsert(@, prop,
                                    (IF Has(self[name], prop) THEN self[name][prop] ELSE {})
                                        \cup {pk})], "")
      [] OTHER -> Step(self, "")

\* table_insert_index!
table_insert_index(self, pk, itype, name, prop) ==
    CASE itype = "unique" ->
            Step([self EXCEPT ![name] = MapInsert(@, prop, pk)],
                 IF Has(self[name], prop) THEN "index entry already existsted" ELSE "")
      [] itype = "index" ->
            IF Has(self[name], prop) /\ pk \in self[name][prop]
            THEN Step(self, "index already had new user")
            ELSE Step([self EXCEPT ![name] =
                          MapInsert(@, prop,
                                    (IF Has(self[name], prop) THEN self[name][prop] ELSE {})
                                        \cup {pk})], "")
      [] itype = "reverse" -> Step(self, "")
      [] itype = "primary" -> Step(self, "")
      [] itype = "foreign" -> Step(self, "")
      [] itype = "constraint" -> Step(self, "")

RECURSIVE insert_indices_from(_, _, _, _, _)
insert_indices_from(self, decls, pkf, data, i) ==
    IF i > Len(decls) THEN Step(self, "")
    ELSE LET d == decls[i]
             s == table_insert_index(self, data[pkf], d.itype, d.name, Field(data, d.prop))
         IN  IF s.panic # "" THEN s ELSE insert_indices_from(s.db, decls, pkf, data, i + 1)

\* fn $table_insert_indices(&mut self, data)
table_insert_indices(self, T, data) == insert_indices_from(self, T.indices, T.pk, data, 1)

\* What a public method leaves behind: the database and the value it returned.
Outcome(db, result) == [db |-> db, result |-> result]

\* mutant of $table_insert: the row is filed under a key that is not its own
table_insert_misfiled(self, T, data) ==
    LET c == table_insert_checks(self, T, data)
    IN  IF c.tag # "Ok" THEN Outcome(self, c)
        ELSE LET s == table_insert_indices(self, T, data)
             IN  IF s.panic # "" THEN Outcome(s.db, Panic(s.panic))
                 ELSE Outcome([s.db EXCEPT ![T.table] =
                                   MapInsert(@, CHOOSE k \in T.pkty : k # data[T.pk], data)],
                              Ok(Unit))

\* mutant of $table_insert: the indices are written before the checks are looked at
table_insert_unchecked(self, T, data) ==
    LET c == table_insert_checks(self, T, data)
        s == table_insert_indices(self, T, data)
    IN  IF c.tag # "Ok" THEN Outcome(s.db, c)
        ELSE IF s.panic # "" THEN Outcome(s.db, Panic(s.panic))
        ELSE Outcome([s.db EXCEPT ![T.table] = MapInsert(@, data[T.pk], data)], Ok(Unit))

\* pub fn $table_insert(&mut self, data) -> Result<(), $errty>
table_insert(self, T, data) ==
    LET c == table_insert_checks(self, T, data)
    IN  IF c.tag # "Ok" THEN Outcome(self, c)
        ELSE LET s == table_insert_indices(self, T, data)
             IN  IF s.panic # "" THEN Outcome(s.db, Panic(s.panic))
                 ELSE Outcome([s.db EXCEPT ![T.table] = MapInsert(@, data[T.pk], data)],
                              Ok(Unit))

\* ------------------------------------------------------------ index removal
\* mutant of table_delete_index!: an emptied grouping set keeps its entry
table_delete_index_unpruned(self, pk, itype, name, prop) ==
    CASE itype = "unique" ->
            Step([self EXCEPT ![name] = MapRemove(@, prop)],
                 IF ~Has(self[name], prop) THEN "unique index missing item"
                 ELSE IF self[name][prop] # pk THEN "unique index had wrong key"
                 ELSE "")
      [] itype = "reverse" ->
            Step([self EXCEPT ![name] = MapRemove(@, pk)],
                 IF Has(self[name], pk) /\ self[name][pk] # {}
                 THEN "reverse index not empty" ELSE "")
      [] itype = "index" ->
            IF ~Has(self[name], prop) THEN Step(self, "index missing")
            ELSE IF pk \notin self[name][prop] THEN Step(self, "index already had new user")
            ELSE Step([self EXCEPT ![name] = MapInsert(@, prop, self[name][prop] \ {pk})], "")
      [] OTHER -> Step(self, "")

\* mutant of table_delete_index!: a unique entry is looked at and left in place
table_delete_index_unique_kept(self, pk, itype, name, prop) ==
    CASE itype = "unique" ->
            Step(self,
                 IF ~Has(self[name], prop) THEN "unique index missing item"
                 ELSE IF self[name][prop] # pk THEN "unique index had wrong key"
                 ELSE "")
      [] itype = "reverse" ->
            Step([self EXCEPT ![name] = MapRemove(@, pk)],
                 IF Has(self[name], pk) /\ self[name][pk] # {}
                 THEN "reverse index not empty" ELSE "")
      [] itype = "index" ->
            IF ~Has(self[name], prop) THEN Step(self, "index missing")
            ELSE IF pk \notin self[name][prop] THEN Step(self, "index already had new user")
            ELSE IF self[name][prop] \ {pk} = {}
                 THEN Step([self EXCEPT ![name] = MapRemove(@, prop)], "")
                 ELSE Step([self EXCEPT ![name] = MapInsert(@, prop, self[name][prop] \ {pk})],
                           "")
      [] OTHER -> Step(self, "")

\* mutant of table_delete_index!: a grouping entry is dropped whole
table_delete_index_whole(self, pk, itype, name, prop) ==
    CASE itype = "unique" ->
            Step([self EXCEPT ![name] = MapRemove(@, prop)],
                 IF ~Has(self[name], prop) THEN "unique index missing item"
                 ELSE IF self[name][prop] # pk THEN "unique index had wrong key"
                 ELSE "")
      [] itype = "reverse" ->
            Step([self EXCEPT ![name] = MapRemove(@, pk)],
                 IF Has(self[name], pk) /\ self[name][pk] # {}
                 THEN "reverse index not empty" ELSE "")
      [] itype = "index" ->
            IF ~Has(self[name], prop) THEN Step(self, "index missing")
            ELSE IF pk \notin self[name][prop] THEN Step(self, "index already had new user")
            ELSE Step([self EXCEPT ![name] = MapRemove(@, prop)], "")
      [] OTHER -> Step(self, "")

\* table_delete_index!
table_delete_index(self, pk, itype, name, prop) ==
    CASE itype = "unique" ->
            Step([self EXCEPT ![name] = MapRemove(@, prop)],
                 IF ~Has(self[name], prop) THEN "unique index missing item"
                 ELSE IF self[name][prop] # pk THEN "unique index had wrong key"
                 ELSE "")
      [] itype = "reverse" ->
            Step([self EXCEPT ![name] = MapRemove(@, pk)],
                 IF Has(self[name], pk) /\ self[name][pk] # {}
                 THEN "reverse index not empty" ELSE "")
      [] itype = "index" ->
            IF ~Has(self[name], prop) THEN Step(self, "index missing")
            ELSE IF pk \notin self[name][prop] THEN Step(self, "index already had new user")
            ELSE IF self[name][prop] \ {pk} = {}
                 THEN Step([self EXCEPT ![name] = MapRemove(@, prop)], "")
                 ELSE Step([self EXCEPT ![name] = MapInsert(@, prop, self[name][prop] \ {pk})],
                           "")
      [] itype = "primary" -> Step(self, "")
      [] itype = "foreign" -> Step(self, "")
      [] itype = "constraint" -> Step(self, "")

RECURSIVE delete_indices_from(_, _, _, _, _)
delete_indices_from(self, decls, pkf, data, i) ==
    IF i > Len(decls) THEN Step(self, "")
    ELSE LET d == decls[i]
             s == table_delete_index(self, data[pkf], d.itype, d.name, Field(data, d.prop))
         IN  IF s.panic # "" THEN s ELSE delete_indices_from(s.db, decls, pkf, data, i + 1)

\* mutant of $table_delete_indices: no index is touched
table_delete_indices_none(self, T, data) == Step(self, "")

\* mutant of $table_delete_indices: the index declared last is not removed from
table_delete_indices_short(self, T, data) ==
    delete_indices_from(self, SubSeq(T.indices, 1, Len(T.indices) - 1), T.pk, data, 1)

\* fn $table_delete_indices(&mut self, data)
table_delete_indices(self, T, data) == delete_indices_from(self, T.indices, T.pk, data, 1)

\* ------------------------------------------------------------ delete checks
\* mutant of table_delete_check!: a unique index is checked as on insert
table_delete_check_unique_guarded(self, pk, itype, name, prop, err) ==
    CASE itype = "reverse" ->
            IF ~Has(self[name], pk) THEN Ok(Unit)
            ELSE IF self[name][pk] = {} THEN Panic("has empty index")
            ELSE Err(err)
      [] itype = "unique" -> IF Has(self[name], prop) THEN Err(err) ELSE Ok(Unit)
      [] OTHER -> Ok(Unit)

\* mutant of table_delete_check!: the reverse kind lets every delete through
table_delete_check_unguarded(self, pk, itype, name, prop, err) == Ok(Unit)

\* table_delete_check!: only the reverse kind looks at anything
table_delete_check(self, pk, itype, name, prop, err) ==
    CASE itype = "reverse" ->
            IF ~Has(self[name], pk) THEN Ok(Unit)
            ELSE IF self[name][pk] = {} THEN Panic("has empty index")
            ELSE Err(err)
      [] itype = "unique"  -> Ok(Unit)
      [] itype = "foreign" -> Ok(Unit)
      [] itype = "primary" -> Ok(Unit)
      [] itype = "index"   -> Ok(Unit)
      [] itype = "constraint" -> Ok(Unit)

RECURSIVE delete_check_from(_, _, _, _, _)
delete_check_from(self, decls, pkf, row, i) ==
    IF i > Len(decls) THEN Ok(row)
    ELSE LET d == decls[i]
             r == table_delete_check(self, row[pkf], d.itype, d.name, Field(row, d.prop), d.err)
         IN  IF r.tag # "Ok" THEN r ELSE delete_check_from(self, decls, pkf, row, i + 1)

\* fn $table_delete_check(&mut self, id) -> Result<$type, $errty>
table_delete_checks(self, T, id) ==
    IF ~Has(self[T.table], id) THEN Err(T.missing)
    ELSE delete_check_from(self, T.indices, T.pk, self[T.table][id], 1)

\* mutant of $table_delete: the row stays in the primary store
table_delete_unremoved(self, T, id) ==
    LET c == table_delete_checks(self, T, id)
    IN  IF c.tag # "Ok" THEN Outcome(self, c)
        ELSE LET s == table_delete_indices(self, T, c.val)
             IN  IF s.panic # "" THEN Outcome(s.db, Panic(s.panic))
                 ELSE Outcome(s.db, Ok(c.val))

\* pub fn $table_delete(&mut self, id) -> Result<$type, $errty>
table_delete(self, T, id) ==
    LET c == table_delete_checks(self, T, id)
    IN  IF c.tag # "Ok" THEN Outcome(self, c)
        ELSE LET s == table_delete_indices(self, T, c.val)
             IN  IF s.panic # "" THEN Outcome(s.db, Panic(s.panic))
                 ELSE Outcome([s.db EXCEPT ![T.table] = MapRemove(@, id)], Ok(c.val))

\* ------------------------------------------------------------- index update
\* mutant of table_update_index!: the old association is left in place
table_update_index_keeping(self, pk, itype, name, old, new) ==
    IF itype \in {"index", "unique", "reverse"} /\ old # new
    THEN table_insert_index(self, pk, itype, name, new)
    ELSE Step(self, "")

\* mutant of table_update_index!: the old association is removed whether or
\* not the field changed, the new one added only when it did
table_update_index_dropping(self, pk, itype, name, old, new) ==
    IF itype \in {"index", "unique", "reverse"}
    THEN LET s == table_delete_index(self, pk, itype, name, old)
         IN  IF s.panic # "" \/ old = new THEN s
             ELSE table_insert_index(s.db, pk, itype, name, new)
    ELSE Step(self, "")

\* mutant of table_update_index!: the grouping kind is left out of the update
table_update_index_no_index(self, pk, itype, name, old, new) ==
    IF itype \in {"unique", "reverse"} /\ old # new
    THEN LET s == table_delete_index(self, pk, itype, name, old)
         IN  IF s.panic # "" THEN s ELSE table_insert_index(s.db, pk, itype, name, new)
    ELSE Step(self, "")

\* table_update_index!: remove the old association, then add the new one
table_update_index(self, pk, itype, name, old, new) ==
    IF itype \in {"index", "unique", "reverse"} /\ old # new
    THEN LET s == table_delete_index(self, pk, itype, name, old)
         IN  IF s.panic # "" THEN s ELSE table_insert_index(s.db, pk, itype, name, new)
    ELSE Step(self, "")

RECURSIVE update_indices_from(_, _, _, _, _, _)
update_indices_from(self, decls, pkf, old, new, i) ==
    IF i > Len(decls) THEN Step(self, "")
    ELSE LET d == decls[i]
             s == table_update_index(self, old[pkf], d.itype, d.name, Field(old, d.prop), Field(new, d.prop))
         IN  IF s.panic # "" THEN s
             ELSE update_indices_from(s.db, decls, pkf, old, new, i + 1)

\* fn $table_update_indices(&mut self, old, new)
table_update_indices(self, T, old, new) ==
    update_indices_from(self, T.indices, T.pk, old, new, 1)

\* ------------------------------------------------------------ update checks
\* mutants of table_update_check!: an unchanged field is checked again; a
\* changed unique field is not checked; the reverse kind is checked as on delete
table_update_check_unchanged(self, pk, itype, name, old, new, err) ==
    IF itype \in {"unique", "foreign"}
    THEN table_insert_check(self, itype, name, new, err)
    ELSE Ok(Unit)

table_update_check_no_unique(self, pk, itype, name, old, new, err) ==
    IF itype = "foreign" /\ old # new
    THEN table_insert_check(self, itype, name, new, err)
    ELSE Ok(Unit)

table_update_check_reverse_guarded(self, pk, itype, name, old, new, err) ==
    IF itype \in {"unique", "foreign"} /\ old # new
    THEN table_insert_check(self, itype, name, new, err)
    ELSE IF itype = "reverse" /\ Has(self[name], pk) THEN Err(err)
    ELSE Ok(Unit)

\* mutant of table_update_check!: a changed foreign key is not looked up
table_update_check_no_foreign(self, pk, itype, name, old, new, err) ==
    IF itype = "unique" /\ old # new
    THEN table_insert_check(self, itype, name, new, err)
    ELSE Ok(Unit)

\* mutant of table_update_check!: the old value of a changed field is checked
table_update_check_old_value(self, pk, itype, name, old, new, err) ==
    IF itype = "foreign" /\ old # new
    THEN table_insert_check(self, itype, name, old, err)
    ELSE IF itype = "unique" /\ old # new
    THEN table_insert_check(self, itype, name, new, err)
    ELSE IF itype = "constraint" THEN constraint_update_check(self, name, old, new)
    ELSE Ok(Unit)

\* table_update_check!: a changed unique or foreign field is checked as on insert
table_update_check(self, pk, itype, name, old, new, err) ==
    IF itype \in {"unique", "foreign"} /\ old # new
    THEN table_insert_check(self, itype, name, new, err)
    ELSE IF itype = "constraint" THEN constraint_update_check(self, name, old, new)
    ELSE Ok(Unit)

RECURSIVE update_check_from(_, _, _, _, _, _)
update_check_from(self, decls, pkf, old, new, i) ==
    IF i > Len(decls) THEN Ok(Unit)
    ELSE LET d == decls[i]
             r == table_update_check(self, old[pkf], d.itype, d.name,
                                     Field(old, d.prop), Field(new, d.prop), d.err)
         IN  IF r.tag # "Ok" THEN r ELSE update_check_from(self, decls, pkf, old, new, i + 1)

\* mutant of $table_update_check: the checks run in the opposite order
table_update_checks_backwards(self, T, old, new) ==
    update_check_from(self, [i \in 1..Len(T.indices) |-> T.indices[Len(T.indices) + 1 - i]],
                      T.pk, old, new, 1)

\* fn $table_update_check(&mut self, old, new) -> Result<(), $errty>
table_update_checks(self, T, old, new) ==
    update_check_from(self, T.indices, T.pk, old, new, 1)

\* mutants of $table_update: the new row is checked as an insert before the
\* stored row is looked up; the new row is not put into the primary store
table_update_checking_first(self, T, new) ==
    LET f == table_insert_checks(self, T, new)
    IN  IF f.tag # "Ok" THEN Outcome(self, f)
        ELSE IF ~Has(self[T.table], new[T.pk]) THEN Outcome(self, Err(T.missing))
        ELSE LET old == self[T.table][new[T.pk]]
                 s == table_update_indices(self, T, old, new)
             IN  IF s.panic # "" THEN Outcome(s.db, Panic(s.panic))
                 ELSE Outcome([s.db EXCEPT ![T.table] = MapInsert(@, new[T.pk], new)],
                              Ok(old))

\* mutant of $table_update: the row handed in is returned, not the one replaced
table_update_returning_new(self, T, new) ==
    IF ~Has(self[T.table], new[T.pk]) THEN Outcome(self, Err(T.missing))
    ELSE LET old == self[T.table][new[T.pk]]
             c == table_update_checks(self, T, old, new)
         IN  IF c.tag # "Ok" THEN Outcome(self, c)
             ELSE LET s == table_update_indices(self, T, old, new)
                  IN  IF s.panic # "" THEN Outcome(s.db, Panic(s.panic))
                      ELSE Outcome([s.db EXCEPT ![T.table] = MapInsert(@, new[T.pk], new)],
                                   Ok(new))

table_update_not_stored(self, T, new) ==
    IF ~Has(self[T.table], new[T.pk]) THEN Outcome(self, Err(T.missing))
    ELSE LET old == self[T.table][new[T.pk]]
             c == table_update_checks(self, T, old, new)
         IN  IF c.tag # "Ok" THEN Outcome(self, c)
             ELSE LET s == table_update_indices(self, T, old, new)
                  IN  IF s.panic # "" THEN Outcome(s.db, Panic(s.panic))
                      ELSE Outcome(s.db, Ok(old))

\* pub fn $table_update(&mut self, new) -> Result<$type, $errty>
table_update(self, T, new) ==
    IF ~Has(self[T.table], new[T.pk]) THEN Outcome(self, Err(T.missing))
    ELSE LET old == self[T.table][new[T.pk]]
             c == table_update_checks(self, T, old, new)
         IN  IF c.tag # "Ok" THEN Outcome(self, c)
             ELSE LET s == table_update_indices(self, T, old, new)
                  IN  IF s.panic # "" THEN Outcome(s.db, Panic(s.panic))
                      ELSE Outcome([s.db EXCEPT ![T.table] = MapInsert(@, new[T.pk], new)],
                                   Ok(old))

\* ------------------------------------------------------- steps of one call
\* The databases one call passes through, in order: the database when the
\* checks have been run, the database after each declared index in turn, and
\* the database after the primary store has been written.  A call refused by
\* a check passes through the first of them only.
RECURSIVE insert_index_steps(_, _, _, _, _)
insert_index_steps(self, decls, pkf, data, i) ==
    IF i > Len(decls) THEN <<>>
    ELSE LET d == decls[i]
             s == table_insert_index(self, data[pkf], d.itype, d.name, Field(data, d.prop))
         IN  <<s.db>> \o insert_index_steps(s.db, decls, pkf, data, i + 1)

RECURSIVE delete_index_steps(_, _, _, _, _)
delete_index_steps(self, decls, pkf, data, i) ==
    IF i > Len(decls) THEN <<>>
    ELSE LET d == decls[i]
             s == table_delete_index(self, data[pkf], d.itype, d.name, Field(data, d.prop))
         IN  <<s.db>> \o delete_index_steps(s.db, decls, pkf, data, i + 1)

RECURSIVE update_index_steps(_, _, _, _, _, _)
update_index_steps(self, decls, pkf, old, new, i) ==
    IF i > Len(decls) THEN <<>>
    ELSE LET d == decls[i]
             s == table_update_index(self, old[pkf], d.itype, d.name,
                                     Field(old, d.prop), Field(new, d.prop))
         IN  <<s.db>> \o update_index_steps(s.db, decls, pkf, old, new, i + 1)

\* mutant of $table_insert: the row is put into the store before the indices
\* are written
insert_steps_store_first(self, T, data) ==
    IF table_insert_checks(self, T, data).tag # "Ok" THEN <<self>>
    ELSE LET stored == [self EXCEPT ![T.table] = MapInsert(@, data[T.pk], data)]
         IN  <<self, stored>> \o insert_index_steps(stored, T.indices, T.pk, data, 1)

\* $table_insert: check, insert_indices, then self.$table.insert(data.$pk, data)
insert_steps(self, T, data) ==
    IF table_insert_checks(self, T, data).tag # "Ok" THEN <<self>>
    ELSE LET tr == <<self>> \o insert_index_steps(self, T.indices, T.pk, data, 1)
         IN  Append(tr, [tr[Len(tr)] EXCEPT ![T.table] = MapInsert(@, data[T.pk], data)])

\* $table_delete: delete_check, delete_indices, then self.$table.remove(&id)
delete_steps(self, T, id) ==
    LET c == table_delete_checks(self, T, id)
    IN  IF c.tag # "Ok" THEN <<self>>
        ELSE LET tr == <<self>> \o delete_index_steps(self, T.indices, T.pk, c.val, 1)
             IN  Append(tr, [tr[Len(tr)] EXCEPT ![T.table] = MapRemove(@, id)])

\* $table_update: lookup, update_check, update_indices, then
\* self.$table.insert(new.$pk, new)
update_steps(self, T, new) ==
    IF ~Has(self[T.table], new[T.pk]) THEN <<self>>
    ELSE LET old == self[T.table][new[T.pk]]
         IN  IF table_update_checks(self, T, old, new).tag # "Ok" THEN <<self>>
             ELSE LET tr == <<self>>
                               \o update_index_steps(self, T.indices, T.pk, old, new, 1)
                  IN  Append(tr, [tr[Len(tr)] EXCEPT ![T.table] =
                                      MapInsert(@, new[T.pk], new)])

\* ------------------------------------------------------------ state machine
\* schema: which database struct this run is about (fixed at construction);
\* db: its value; last: the call the caller has just made (the method, its
\* table, its argument, the database before it and the value returned), or
\* Idle once the caller has consumed the result.
VARIABLES schema, db, last

vars == <<schema, db, last>>

Call(op, table, id, row, pre, result) ==
    [op |-> op, table |-> table, id |-> id, row |-> row, pre |-> pre, result |-> result]

Idle == Call("none", "", NoRow, NoRow, EmptyMap, Ok(Unit))

\* the caller is between two calls
Ready == last.op = "none"

Init ==
    /\ schema \in Schemas
    /\ db = Default(schema)
    /\ last = Idle

\* database.$table_insert(data)
insert(T, data) ==
    /\ Ready
    /\ LET o == table_insert(db, T, data)
       IN  /\ db' = o.db
           /\ last' = Call("insert", T.table, data[T.pk], data, db, o.result)
    /\ UNCHANGED schema

\* database.$table_update(data)
update(T, data) ==
    /\ Ready
    /\ LET o == table_update(db, T, data)
       IN  /\ db' = o.db
           /\ last' = Call("update", T.table, data[T.pk], data, db, o.result)
    /\ UNCHANGED schema

\* database.$table_delete(id)
delete(T, id) ==
    /\ Ready
    /\ LET o == table_delete(db, T, id)
       IN  /\ db' = o.db
           /\ last' = Call("delete", T.table, id, NoRow, db, o.result)
    /\ UNCHANGED schema

\* database.$table_next_id(): `&self`, the database is only read
next_id(T) ==
    /\ Ready
    /\ T.autokey
    /\ \E r \in table_next_id(db, T) :
           last' = Call("next_id", T.table, NoRow, NoRow, db, r)
    /\ UNCHANGED <<schema, db>>

\* the caller takes the returned value and goes on to its next call; a panic
\* unwinds out of the caller instead, and no further call is made
Return ==
    /\ ~Ready
    /\ last.result.tag # "Panic"
    /\ last' = Idle
    /\ UNCHANGED <<schema, db>>

Next ==
    \/ \E T \in Tables(schema) : \E data \in T.type : insert(T, data)
    \/ \E T \in Tables(schema) : \E data \in T.type : update(T, data)
    \/ \E T \in Tables(schema) : \E id \in T.pkty : delete(T, id)
    \/ \E T \in Tables(schema) : next_id(T)
    \/ Return

Spec == Init /\ [][Next]_vars

\* the database of the documentation, taken on its own: its groups table
\* declares its primary key over the users map
DocInit ==
    /\ schema = "doc"
    /\ db = Default(schema)
    /\ last = Idle

DocSpec == DocInit /\ [][Next]_vars

\* ------------------------------------------------------------------ claims
\* the table of the call recorded in last
LastTable == CHOOSE T \in Tables(schema) : T.table = last.table

\* the positions of the declarations of one kind in a table
DeclsOf(T, itype) == {i \in 1..Len(T.indices) : T.indices[i].itype = itype}

\* map.get(&v) of a grouping index, the empty set when there is no entry
Lookup(idx, v) == IF Has(idx, v) THEN idx[v] ELSE {}

\* the declared check d, alone, rejects the insertion of row into database d0
Violated(d0, d, row) == table_insert_check(d0, d.itype, d.name, Field(row, d.prop), d.err).tag = "Err"

\* the positions of the declared checks that reject the insertion of row
Violations(d0, T, row) == {i \in 1..Len(T.indices) : Violated(d0, T.indices[i], row)}

Min(S) == CHOOSE i \in S : \A j \in S : i <= j

\* the last call was op and it returned Ok
Succeeded(op) == last.op = op /\ last.result.tag = "Ok"

\* C1: a call that returns an error leaves the primary store and every index
\* map of every table as they were before the call.
NoPartialMutation ==
    (last.op # "none" /\ last.result.tag = "Err") => db = last.pre

\* an update of a stored user refused by a unique index, in a populated database
NoPartialMutationWitness ==
    /\ schema = "std"
    /\ last.op = "update"
    /\ last.result = Err("UserNameExists")
    /\ Cardinality(DOMAIN db.users) = 2
    /\ db.users[last.id] # last.row

\* C2: every unique index is exactly the set of pairs (r.field -> r.pk) over the
\* stored records r: no entry is missing and none is stale.
UniqueIndexExact ==
    \A T \in Tables(schema) : \A i \in DeclsOf(T, "unique") :
        LET d == T.indices[i]
            store == db[T.table]
            idx == db[d.name]
        IN  /\ \A k \in DOMAIN store :
                  Has(idx, Field(store[k], d.prop)) /\ idx[Field(store[k], d.prop)] = store[k][T.pk]
            /\ \A v \in DOMAIN idx : Has(store, idx[v]) /\ Field(store[idx[v]], d.prop) = v

\* an update that changed the unique name of one of two stored users
UniqueIndexExactWitness ==
    /\ schema = "std"
    /\ Succeeded("update")
    /\ last.table = "users"
    /\ last.result.val.name # last.row.name
    /\ Cardinality(DOMAIN db.users) = 2

\* C3: for every grouping index and every value v, the set stored under v is
\* exactly the set of primary keys of the stored records whose field is v.
GroupingIndexExact ==
    \A T \in Tables(schema) : \A i \in DeclsOf(T, "index") :
        LET d == T.indices[i]
            store == db[T.table]
            idx == db[d.name]
        IN  \A v \in (DOMAIN idx) \cup {Field(store[k], d.prop) : k \in DOMAIN store} :
                Lookup(idx, v) = {k \in DOMAIN store : Field(store[k], d.prop) = v}

\* a user moved from one group to the group of another user
GroupingIndexExactWitness ==
    /\ schema = "std"
    /\ Succeeded("update")
    /\ last.table = "users"
    /\ last.result.val.group # last.row.group
    /\ Cardinality(Lookup(db.users_by_group, last.row.group)) = 2

\* C4: in the users/groups database every stored user's group is the key of a
\* stored group, and every key of users_by_group is the key of a stored group.
ForeignKeysResolve ==
    schema = "std" =>
        /\ \A u \in DOMAIN db.users : Has(db.groups, db.users[u].group)
        /\ DOMAIN db.users_by_group \subseteq DOMAIN db.groups

\* the delete of a group that users still reference was just refused
ForeignKeysResolveWitness ==
    /\ schema = "std"
    /\ last.op = "delete"
    /\ last.table = "groups"
    /\ last.result = Err("GroupNotEmpty")
    /\ \E u \in DOMAIN db.users : db.users[u].group = last.id

\* the users of database d0 whose group is g
Children(d0, g) == {u \in DOMAIN d0.users : d0.users[u].group = g}

\* users_delete of each key of ids in turn; ok as long as every call returned Ok
RECURSIVE DeleteEach(_, _)
DeleteEach(d0, ids) ==
    IF ids = {} THEN [db |-> d0, ok |-> TRUE]
    ELSE LET k == CHOOSE k \in ids : TRUE
             o == table_delete(d0, UsersTable, k)
         IN  IF o.result.tag # "Ok" THEN [db |-> o.db, ok |-> FALSE]
             ELSE DeleteEach(o.db, ids \ {k})

\* C5: the delete of a group that at least one user references fails with
\* GroupNotEmpty; once every referencing user has been deleted, the delete of
\* the same group succeeds (the caller, between two calls, deletes the users
\* and then the group).
ReverseGuard ==
    schema = "std" =>
        /\ ( /\ last.op = "delete"
             /\ last.table = "groups"
             /\ Has(last.pre.groups, last.id)
             /\ Children(last.pre, last.id) # {} )
           => last.result = Err("GroupNotEmpty")
        /\ Ready =>
             \A g \in DOMAIN db.groups :
               Children(db, g) # {} =>
                   LET e == DeleteEach(db, Children(db, g))
                   IN  /\ table_delete(db, GroupsTable, g).result = Err("GroupNotEmpty")
                       /\ e.ok
                       /\ table_delete(e.db, GroupsTable, g).result = Ok(db.groups[g])

\* the delete of a group referenced by two users was just refused
ReverseGuardWitness ==
    /\ schema = "std"
    /\ last.op = "delete"
    /\ last.table = "groups"
    /\ last.result = Err("GroupNotEmpty")
    /\ Cardinality(Children(db, last.id)) = 2

\* C6: an insert whose primary key is already in the table fails with the
\* table's primary-exists error whatever the other fields are, for integer
\* keys and for caller-supplied String keys alike.
PrimaryKeyExists ==
    (last.op = "insert" /\ Has(last.pre[last.table], last.id)) =>
        \A i \in DeclsOf(LastTable, "primary") : last.result = Err(LastTable.indices[i].err)

\* a String-keyed insert over a stored key, every other field different
PrimaryKeyExistsWitness ==
    /\ schema = "clone"
    /\ last.op = "insert"
    /\ Has(last.pre.users, last.id)
    /\ last.pre.users[last.id].name # last.row.name
    /\ last.pre.users[last.id].age # last.row.age
    /\ last.result = Err("UserIdExists")

\* the last call inserted, under a fresh key, a row whose value for the unique
\* declaration at position i is held by a stored record
DuplicatesUnique(i) ==
    /\ last.op = "insert"
    /\ ~Has(last.pre[last.table], last.id)
    /\ Has(last.pre[LastTable.indices[i].name], Field(last.row, LastTable.indices[i].prop))

\* C7 as stated: an insert under a fresh key that repeats a stored value of a
\* unique field fails with that unique index's error.
UniqueValueExistsAlways ==
    last.op = "insert" =>
        \A i \in DeclsOf(LastTable, "unique") :
            DuplicatesUnique(i) => last.result = Err(LastTable.indices[i].err)

\* C7: an insert under a fresh key that repeats a stored value of a unique
\* field fails, and with that unique index's error unless a check declared
\* before it is violated as well.
UniqueValueExists ==
    last.op = "insert" =>
        \A i \in DeclsOf(LastTable, "unique") :
            DuplicatesUnique(i) =>
                /\ last.result.tag = "Err"
                /\ (\A j \in 1..(i - 1) : ~Violated(last.pre, LastTable.indices[j], last.row))
                       => last.result = Err(LastTable.indices[i].err)

\* a fresh user with a fresh email and a stored name was refused
UniqueValueExistsWitness ==
    /\ schema = "std"
    /\ last.op = "insert"
    /\ last.table = "users"
    /\ ~Has(last.pre.users, last.id)
    /\ ~Has(last.pre.user_by_email, last.row.email)
    /\ Has(last.pre.user_by_name, last.row.name)
    /\ last.result = Err("UserNameExists")

\* C8: an insert that violates more than one declared check returns the error
\* of the violated check declared first, and that error only.
FirstViolationWins ==
    (last.op = "insert" /\ Cardinality(Violations(last.pre, LastTable, last.row)) > 1) =>
        last.result = Err(LastTable.indices[Min(Violations(last.pre, LastTable, last.row))].err)

\* a user repeating a stored key, a stored email and a stored name
FirstViolationWinsWitness ==
    /\ schema = "std"
    /\ last.op = "insert"
    /\ last.table = "users"
    /\ {1, 2, 3} \subseteq Violations(last.pre, UsersTable, last.row)
    /\ last.pre.user_by_email[last.row.email] # last.id
    /\ last.result = Err("UserIdExists")

\* C9 as stated: an insert whose foreign key names no stored row of the
\* referenced table fails with the declared foreign error.
ForeignKeyMissingAlways ==
    last.op = "insert" =>
        \A i \in DeclsOf(LastTable, "foreign") :
            ~Has(last.pre[LastTable.indices[i].name], Field(last.row, LastTable.indices[i].prop))
                => last.result = Err(LastTable.indices[i].err)

\* C9: an insert whose foreign key names no stored row of the referenced table
\* fails, and with the declared foreign error unless a check declared before
\* it is violated as well; when the referenced row is stored the insert does
\* not fail with the foreign error.
ForeignKeyMissing ==
    last.op = "insert" =>
        \A i \in DeclsOf(LastTable, "foreign") :
            LET d == LastTable.indices[i]
            IN  IF Has(last.pre[d.name], Field(last.row, d.prop))
                THEN last.result # Err(d.err)
                ELSE /\ last.result.tag = "Err"
                     /\ (\A j \in 1..(i - 1) : ~Violated(last.pre, LastTable.indices[j], last.row))
                            => last.result = Err(d.err)

\* a user with fresh key, email and name was refused for a group that is not
\* stored, while another group is
ForeignKeyMissingWitness ==
    /\ schema = "std"
    /\ last.op = "insert"
    /\ last.table = "users"
    /\ Violations(last.pre, UsersTable, last.row) = {4}
    /\ DOMAIN last.pre.groups # {}
    /\ last.result = Err("GroupNotFound")

\* C10: after a successful insert of r the primary store maps r.pk to r, every
\* unique index maps r's value to r.pk, and every grouping set for r's value
\* holds r.pk together with the keys it held before.
InsertRoundTrip ==
    Succeeded("insert") =>
        LET T == LastTable
            r == last.row
        IN  /\ Has(db[T.table], r[T.pk]) /\ db[T.table][r[T.pk]] = r
            /\ \A i \in DeclsOf(T, "unique") :
                   LET d == T.indices[i]
                   IN  Has(db[d.name], Field(r, d.prop)) /\ db[d.name][Field(r, d.prop)] = r[T.pk]
            /\ \A i \in DeclsOf(T, "index") :
                   LET d == T.indices[i]
                   IN  /\ Has(db[d.name], Field(r, d.prop))
                       /\ db[d.name][Field(r, d.prop)] =
                              Lookup(last.pre[d.name], Field(r, d.prop)) \cup {r[T.pk]}

\* a user was inserted next to a stored user of the same age and group
InsertRoundTripWitness ==
    /\ schema = "std"
    /\ Succeeded("insert")
    /\ last.table = "users"
    /\ Lookup(last.pre.users_by_age, last.row.age) # {}
    /\ Lookup(last.pre.users_by_group, last.row.group) # {}

\* the row stored under the key of the last call, before the call
Stored == last.pre[last.table][last.id]

\* the last call was an update of a stored row
UpdatedStored == last.op = "update" /\ Has(last.pre[last.table], last.id)

\* the declared check d, alone, rejects the update of old into new in database d0
UpdateViolated(d0, T, d, old, new) ==
    table_update_check(d0, old[T.pk], d.itype, d.name, Field(old, d.prop), Field(new, d.prop), d.err).tag
        = "Err"

\* the positions of the declared checks that reject the update of old into new
UpdateViolations(d0, T, old, new) ==
    {i \in 1..Len(T.indices) : UpdateViolated(d0, T, T.indices[i], old, new)}

\* C11: an update whose key is not in the table fails with the table's missing
\* error, whatever unique or foreign violation the row would cause as well.
UpdateMissing ==
    (last.op = "update" /\ ~Has(last.pre[last.table], last.id)) =>
        last.result = Err(LastTable.missing)

\* a user under a key that is not stored, with a stored email, a stored name
\* and a group that is not stored
UpdateMissingWitness ==
    /\ schema = "std"
    /\ last.op = "update"
    /\ last.table = "users"
    /\ ~Has(last.pre.users, last.id)
    /\ Has(last.pre.user_by_email, last.row.email)
    /\ Has(last.pre.user_by_name, last.row.name)
    /\ ~Has(last.pre.groups, last.row.group)
    /\ last.result = Err("UserNotFound")

\* C12: a successful update returns the row stored under the key before the
\* call; afterwards the store maps the key to the new row, each changed unique
\* field's old value is gone from its index and the new value maps to the key,
\* and each changed grouping field's old set has lost the key and the new set
\* holds it.
UpdateReplaces ==
    Succeeded("update") =>
        LET T == LastTable
            new == last.row
            old == Stored
        IN  /\ Has(last.pre[T.table], last.id)
            /\ last.result.val = old
            /\ Has(db[T.table], last.id) /\ db[T.table][last.id] = new
            /\ \A i \in DeclsOf(T, "unique") :
                   LET d == T.indices[i]
                   IN  Field(old, d.prop) # Field(new, d.prop) =>
                           /\ ~Has(db[d.name], Field(old, d.prop))
                           /\ Has(db[d.name], Field(new, d.prop))
                           /\ db[d.name][Field(new, d.prop)] = last.id
            /\ \A i \in DeclsOf(T, "index") :
                   LET d == T.indices[i]
                   IN  Field(old, d.prop) # Field(new, d.prop) =>
                           /\ last.id \notin Lookup(db[d.name], Field(old, d.prop))
                           /\ last.id \in Lookup(db[d.name], Field(new, d.prop))

\* one of two stored users of a group got a new name and a new group
UpdateReplacesWitness ==
    /\ schema = "std"
    /\ Succeeded("update")
    /\ last.table = "users"
    /\ Cardinality(Lookup(last.pre.users_by_group, Stored.group)) = 2
    /\ Stored.name # last.row.name
    /\ Stored.group # last.row.group

\* C13: an update of a stored row that leaves a unique field as it is never
\* fails with that unique index's error.
UnchangedUniqueNotRechecked ==
    UpdatedStored =>
        \A i \in DeclsOf(LastTable, "unique") :
            LET d == LastTable.indices[i]
            IN  Field(Stored, d.prop) = Field(last.row, d.prop) => last.result # Err(d.err)

\* a user kept its email and name and moved to another group
UnchangedUniqueNotRecheckedWitness ==
    /\ schema = "std"
    /\ Succeeded("update")
    /\ last.table = "users"
    /\ Stored.email = last.row.email
    /\ Stored.name = last.row.name
    /\ Stored.group # last.row.group
    /\ last.pre.user_by_email[last.row.email] = last.id

\* the last call updated a stored row, changing the field of the unique
\* declaration at position i to a value held by another stored row
TakesUnique(i) ==
    /\ UpdatedStored
    /\ Field(Stored, LastTable.indices[i].prop) # Field(last.row, LastTable.indices[i].prop)
    /\ Has(last.pre[LastTable.indices[i].name], Field(last.row, LastTable.indices[i].prop))

\* C14 as stated: an update that changes a unique field to a value held by
\* another stored row fails with that unique index's error.
UpdateUniqueExistsAlways ==
    last.op = "update" =>
        \A i \in DeclsOf(LastTable, "unique") :
            TakesUnique(i) => last.result = Err(LastTable.indices[i].err)

\* C14: an update that changes a unique field to a value held by another
\* stored row fails, and with that unique index's error unless a check
\* declared before it is violated as well.
UpdateUniqueExists ==
    last.op = "update" =>
        \A i \in DeclsOf(LastTable, "unique") :
            TakesUnique(i) =>
                /\ last.result.tag = "Err"
                /\ (\A j \in 1..(i - 1) :
                        ~UpdateViolated(last.pre, LastTable, LastTable.indices[j],
                                        Stored, last.row))
                       => last.result = Err(LastTable.indices[i].err)

\* a user kept its email and took the name of the other stored user
UpdateUniqueExistsWitness ==
    /\ schema = "std"
    /\ last.op = "update"
    /\ last.table = "users"
    /\ Has(last.pre.users, last.id)
    /\ Stored.email = last.row.email
    /\ Stored.name # last.row.name
    /\ Has(last.pre.user_by_name, last.row.name)
    /\ last.result = Err("UserNameExists")

\* C15: an update of a stored row that violates more than one check on changed
\* fields returns the error of the violated check declared first.
FirstUpdateViolationWins ==
    (UpdatedStored
        /\ Cardinality(UpdateViolations(last.pre, LastTable, Stored, last.row)) > 1) =>
        last.result =
            Err(LastTable.indices[
                    Min(UpdateViolations(last.pre, LastTable, Stored, last.row))].err)

\* a user took the other user's email and name and a group that is not stored
FirstUpdateViolationWinsWitness ==
    /\ schema = "std"
    /\ UpdatedStored
    /\ last.table = "users"
    /\ UpdateViolations(last.pre, UsersTable, Stored, last.row) = {2, 3, 4}
    /\ last.result = Err("UserEmailExists")

\* C16: a delete of a key that is not in the table fails with the table's
\* missing error; deleting the same key twice in a row succeeds the first time
\* and fails with the missing error the second time.
DeleteMissing ==
    /\ (last.op = "delete" /\ ~Has(last.pre[last.table], last.id)) =>
           last.result = Err(LastTable.missing)
    /\ Succeeded("delete") =>
           table_delete(db, LastTable, last.id) = Outcome(db, Err(LastTable.missing))

\* a stored group was deleted while the other group, and a user of it, stay
DeleteMissingWitness ==
    /\ schema = "std"
    /\ Succeeded("delete")
    /\ last.table = "groups"
    /\ DOMAIN db.groups # {}
    /\ DOMAIN db.users # {}

\* C17: a successful delete returns the row stored under the key; afterwards
\* the key is gone from the store, the row's value is gone from every unique
\* index, and the key is gone from every grouping set it was in while the
\* other keys of that set stay.
DeleteRemoves ==
    Succeeded("delete") =>
        LET T == LastTable
            r == Stored
        IN  /\ Has(last.pre[T.table], last.id)
            /\ last.result.val = r
            /\ ~Has(db[T.table], last.id)
            /\ \A i \in DeclsOf(T, "unique") : ~Has(db[T.indices[i].name], Field(r, T.indices[i].prop))
            /\ \A i \in DeclsOf(T, "index") :
                   LET d == T.indices[i]
                   IN  /\ last.id \in Lookup(last.pre[d.name], Field(r, d.prop))
                       /\ Lookup(db[d.name], Field(r, d.prop)) =
                              Lookup(last.pre[d.name], Field(r, d.prop)) \ {last.id}

\* a user was deleted while another user of the same group and age stays
DeleteRemovesWitness ==
    /\ schema = "std"
    /\ Succeeded("delete")
    /\ last.table = "users"
    /\ Lookup(db.users_by_group, last.result.val.group) # {}
    /\ Lookup(db.users_by_age, last.result.val.age) # {}

\* C18: a delete of a stored key fails only with the error of a reverse
\* declaration: in a table that declares none it always succeeds.
DeleteFailsOnlyOnReverse ==
    (last.op = "delete" /\ Has(last.pre[last.table], last.id)) =>
        /\ \/ last.result.tag = "Ok"
           \/ \E i \in DeclsOf(LastTable, "reverse") :
                  last.result = Err(LastTable.indices[i].err)
        /\ DeclsOf(LastTable, "reverse") = {} => last.result.tag = "Ok"

\* a stored user, held by two unique indices, two grouping indices and a
\* foreign key, was deleted
DeleteFailsOnlyOnReverseWitness ==
    /\ schema = "std"
    /\ last.op = "delete"
    /\ last.table = "users"
    /\ Has(last.pre.users, last.id)
    /\ DeclsOf(UsersTable, "reverse") = {}
    /\ last.result = Ok(Stored)

\* C19: the reverse error is returned by delete only: an insert into the
\* parent table and an update of a parent row never fail with it, also while
\* child rows reference the parent.
ReverseOnlyOnDelete ==
    last.op \in {"insert", "update"} =>
        \A i \in DeclsOf(LastTable, "reverse") : last.result # Err(LastTable.indices[i].err)

\* a group that a user references got a new name and a new privileged flag
ReverseOnlyOnDeleteWitness ==
    /\ schema = "std"
    /\ Succeeded("update")
    /\ last.table = "groups"
    /\ Children(last.pre, last.id) # {}
    /\ Stored.name # last.row.name
    /\ Stored.privileged # last.row.privileged

\* C20: no grouping index holds a key whose set is empty: a delete or an update
\* that takes the last primary key out of a set removes the set's entry.
NoEmptyGroupingSet ==
    \A T \in Tables(schema) : \A i \in DeclsOf(T, "index") :
        \A v \in DOMAIN db[T.indices[i].name] : db[T.indices[i].name][v] # {}

\* the only user of a group moved to another group, and the old group's entry
\* is gone from users_by_group
NoEmptyGroupingSetWitness ==
    /\ schema = "std"
    /\ Succeeded("update")
    /\ last.table = "users"
    /\ Stored.group # last.row.group
    /\ last.pre.users_by_group[Stored.group] = {last.id}
    /\ ~Has(db.users_by_group, Stored.group)

\* C21: no insert, update or delete ever raises one of the panics of the index
\* steps or of the delete check: each returns Ok or a declared error.
NoDefectPanic ==
    last.op \in {"insert", "update", "delete"} => last.result.tag \in {"Ok", "Err"}

\* one of two stored users, the only one of its group, was deleted: two unique
\* entries were taken out and a grouping set was pruned
NoDefectPanicWitness ==
    /\ schema = "std"
    /\ Succeeded("delete")
    /\ last.table = "users"
    /\ Cardinality(DOMAIN last.pre.users) = 2
    /\ last.pre.users_by_group[Stored.group] = {last.id}

\* the largest key of the table of the last call, before the call
MaxStored == KeyMax(LastTable.keyty, DOMAIN last.pre[last.table])

\* C22 as stated: next_id returns the zero of the key type when the table is
\* empty and otherwise the key one above the largest stored key, and leaves
\* the database as it was.
NextIdIsMaxPlusOne ==
    last.op = "next_id" =>
        /\ db = last.pre
        /\ IF DOMAIN last.pre[last.table] = {}
           THEN last.result = Ok(KeyZero)
           ELSE /\ last.result = Ok(WrappingAddOne(MaxStored))
                /\ KeyLess(LastTable.keyty, MaxStored, last.result.val)

\* C23 as stated: the key that next_id returns is not stored in the table,
\* whatever keys are stored.
NextIdIsFresh ==
    (last.op = "next_id" /\ last.result.tag = "Ok") =>
        ~Has(db[last.table], last.result.val)

\* C24: a call on the users table leaves the groups store and the groups'
\* indices as they were, and a call on the groups table leaves the users
\* store, the users' unique indices and the users' grouping indices as they were.
OtherTableUntouched ==
    (schema = "std" /\ last.op \in {"insert", "update", "delete"}) =>
        /\ last.table = "users" =>
               \A c \in {"groups", "group_by_name", "groups_by_privileged"} :
                   db[c] = last.pre[c]
        /\ last.table = "groups" =>
               \A c \in {"users", "user_by_email", "user_by_name", "users_by_age",
                         "users_by_group"} :
                   db[c] = last.pre[c]

\* a group was deleted, its reverse removal step run, while the other group
\* has users
OtherTableUntouchedWitness ==
    /\ schema = "std"
    /\ Succeeded("delete")
    /\ last.table = "groups"
    /\ DOMAIN db.users_by_group # {}
    /\ ~Has(db.users_by_group, last.id)

\* the declared predicate of the constraint at position i rejects the row of
\* the last call
Rejects(i) == constraint_call(last.pre, LastTable.indices[i].name, last.row).tag = "Err"

\* C25 as stated: an insert of a row that the predicate of a declared
\* constraint rejects fails with the predicate's error and stores nothing.
ConstraintRejectsInsertAlways ==
    last.op = "insert" =>
        \A i \in DeclsOf(LastTable, "constraint") :
            Rejects(i) =>
                /\ last.result = constraint_call(last.pre, LastTable.indices[i].name, last.row)
                /\ db = last.pre

\* C25: an insert of a row that the predicate of a declared constraint rejects
\* fails and stores nothing, and the error is the predicate's unless a check
\* declared before the constraint is violated as well.
ConstraintRejectsInsert ==
    last.op = "insert" =>
        \A i \in DeclsOf(LastTable, "constraint") :
            Rejects(i) =>
                /\ last.result.tag = "Err"
                /\ db = last.pre
                /\ (\A j \in 1..(i - 1) : ~Violated(last.pre, LastTable.indices[j], last.row))
                       => last.result =
                              constraint_call(last.pre, LastTable.indices[i].name, last.row)

\* a user with a fresh key and an empty name was refused while a user is stored
ConstraintRejectsInsertWitness ==
    /\ schema = "constraint"
    /\ last.op = "insert"
    /\ ~Has(last.pre.users, last.id)
    /\ DOMAIN last.pre.users # {}
    /\ last.row.name = ""
    /\ last.result = Err("UserNameEmpty")

Agreeing(d0, T, props, row) ==
    {k \in DOMAIN d0[T.table] :
        \A c \in 1..Len(props) : d0[T.table][k][props[c]] = row[props[c]]}

\* C27: on an index over a tuple of fields, an insert under a fresh key fails
\* with a compound unique index's error exactly when a stored row agrees with
\* the new row on every field of the tuple; two stored rows are in one set of
\* a compound grouping index exactly when they agree on every field of the
\* tuple, and every stored row is in a set.
CompoundKeyIsTuple ==
    \A T \in Tables(schema) : \A i \in 1..Len(T.indices) :
        LET d == T.indices[i]
            store == db[T.table]
            idx == db[d.name]
        IN  Len(d.prop) > 1 =>
              /\ (d.itype = "unique" /\ last.op = "insert" /\ last.table = T.table
                    /\ ~Has(last.pre[T.table], last.id)) =>
                     (last.result = Err(d.err)
                        <=> Agreeing(last.pre, T, d.prop, last.row) # {})
              /\ d.itype = "index" =>
                     \A k1 \in DOMAIN store :
                        /\ \E v \in DOMAIN idx : k1 \in idx[v]
                        /\ \A k2 \in DOMAIN store :
                              (\E v \in DOMAIN idx : {k1, k2} \subseteq idx[v])
                                 <=> k2 \in Agreeing(db, T, d.prop, store[k1])

\* a user was inserted next to a stored one of the same first name and city,
\* another last name and another country
CompoundKeyIsTupleWitness ==
    /\ schema = "compound"
    /\ Succeeded("insert")
    /\ \E k \in DOMAIN last.pre.users :
          /\ last.pre.users[k].first = last.row.first
          /\ last.pre.users[k].last # last.row.last
          /\ last.pre.users[k].city = last.row.city
          /\ last.pre.users[k].country # last.row.country

\* C28: every entry of a primary store holds, under key k, a row whose primary
\* key field is k.
StoredUnderOwnKey ==
    \A T \in Tables(schema) : \A k \in DOMAIN db[T.table] : db[T.table][k][T.pk] = k

\* one of two stored users was replaced by an update
StoredUnderOwnKeyWitness ==
    /\ schema = "tests"
    /\ Succeeded("update")
    /\ Cardinality(DOMAIN db.users) = 2
    /\ db.users[last.id] # Stored

\* C29: right after a successful insert of r, the delete of r's key returns r
\* and leaves the store and every index as they were before the insert.
InsertThenDelete ==
    Succeeded("insert") =>
        table_delete(db, LastTable, last.id) = Outcome(last.pre, Ok(last.row))

\* a user was inserted next to a stored user of the same age and location
InsertThenDeleteWitness ==
    /\ schema = "compound"
    /\ Succeeded("insert")
    /\ Lookup(last.pre.users_by_age, last.row.age) # {}
    /\ Lookup(last.pre.users_by_location, <<last.row.city, last.row.country>>) # {}

\* the unique and grouping indices of table T whose field differs between old and new
ChangedIndices(T, old, new) ==
    {T.indices[i].name : i \in {j \in DeclsOf(T, "unique") \cup DeclsOf(T, "index") :
                                    Field(old, T.indices[j].prop) # Field(new, T.indices[j].prop)}}

\* C30: a successful update leaves every map but the table's store and the
\* indices on a changed field as it was; an update of a stored row to itself
\* succeeds, returns the row and leaves the whole database as it was.
UpdateTouchesChangedOnly ==
    /\ Succeeded("update") =>
           \A c \in (DOMAIN db) \ ({last.table} \cup ChangedIndices(LastTable, Stored, last.row)) :
               db[c] = last.pre[c]
    /\ (UpdatedStored /\ last.row = Stored) => (last.result = Ok(Stored) /\ db = last.pre)

\* a user of a populated database got a new name and kept its email, age and group
UpdateTouchesChangedOnlyWitness ==
    /\ schema = "std"
    /\ Succeeded("update")
    /\ last.table = "users"
    /\ Cardinality(DOMAIN db.users) = 2
    /\ ChangedIndices(UsersTable, Stored, last.row) = {"user_by_name"}
    /\ db.user_by_email = last.pre.user_by_email

\* the grouping indices of table T declared over the fields of declaration d
Paired(T, d) == {j \in DeclsOf(T, "index") : T.indices[j].prop = d.prop}

\* the grouping index idx0 has become idx by moving key k from the set of
\* value old to the set of value new
Moved(idx0, idx, k, old, new) ==
    /\ Lookup(idx, old) = Lookup(idx0, old) \ {k}
    /\ Lookup(idx, new) = Lookup(idx0, new) \cup {k}

\* C31 as stated: an update that changes a foreign key to a key that is not
\* stored in the referenced table fails with the foreign error and changes
\* nothing; when the new key is stored there the update succeeds and the
\* paired grouping index moves the key of the row from the old set to the new.
ForeignUpdateAlways ==
    UpdatedStored =>
        \A i \in DeclsOf(LastTable, "foreign") :
            LET d == LastTable.indices[i]
                old == Field(Stored, d.prop)
                new == Field(last.row, d.prop)
            IN  old # new =>
                    IF ~Has(last.pre[d.name], new)
                    THEN last.result = Err(d.err) /\ db = last.pre
                    ELSE /\ last.result = Ok(Stored)
                         /\ \A j \in Paired(LastTable, d) :
                                Moved(last.pre[LastTable.indices[j].name],
                                      db[LastTable.indices[j].name], last.id, old, new)

\* C31: an update that changes a foreign key to a key that is not stored in
\* the referenced table fails and changes nothing, with the foreign error
\* unless a check declared before it is violated as well; when the new key is
\* stored there the update does not fail with the foreign error, and when no
\* other check is violated it succeeds and the paired grouping index moves
\* the key of the row from the old set to the new.
ForeignUpdate ==
    UpdatedStored =>
        \A i \in DeclsOf(LastTable, "foreign") :
            LET d == LastTable.indices[i]
                old == Field(Stored, d.prop)
                new == Field(last.row, d.prop)
                broken == UpdateViolations(last.pre, LastTable, Stored, last.row)
            IN  old # new =>
                    IF ~Has(last.pre[d.name], new)
                    THEN /\ last.result.tag = "Err"
                         /\ db = last.pre
                         /\ i = Min(broken) => last.result = Err(d.err)
                    ELSE /\ last.result # Err(d.err)
                         /\ broken = {} =>
                              /\ last.result = Ok(Stored)
                              /\ \A j \in Paired(LastTable, d) :
                                     Moved(last.pre[LastTable.indices[j].name],
                                           db[LastTable.indices[j].name], last.id, old, new)

\* a user kept its email and name and was refused a group that is not stored,
\* while its own group is
ForeignUpdateWitness ==
    /\ schema = "std"
    /\ UpdatedStored
    /\ last.table = "users"
    /\ Stored.email = last.row.email
    /\ Stored.name = last.row.name
    /\ Has(last.pre.groups, Stored.group)
    /\ ~Has(last.pre.groups, last.row.group)
    /\ last.result = Err("GroupNotFound")

\* C32: after the only user of group A is updated to reference group B, the
\* delete of A succeeds and the delete of B fails with the reverse error; and
\* every stored user is counted in users_by_group under its own group and
\* under no other.
ReverseGuardFollowsUpdate ==
    schema = "std" =>
        /\ ( /\ Succeeded("update")
             /\ last.table = "users"
             /\ Stored.group # last.row.group
             /\ Children(last.pre, Stored.group) = {last.id} )
           => /\ table_delete(db, GroupsTable, Stored.group).result
                    = Ok(db.groups[Stored.group])
              /\ table_delete(db, GroupsTable, last.row.group).result
                    = Err("GroupNotEmpty")
        /\ \A u \in DOMAIN db.users :
              {g \in DOMAIN db.users_by_group : u \in db.users_by_group[g]}
                  = {db.users[u].group}

\* the only user of a group moved to a group that had no user
ReverseGuardFollowsUpdateWitness ==
    /\ schema = "std"
    /\ Succeeded("update")
    /\ last.table = "users"
    /\ Stored.group # last.row.group
    /\ Children(last.pre, Stored.group) = {last.id}
    /\ Children(last.pre, last.row.group) = {}
    /\ Children(db, last.row.group) = {last.id}

\* C33 as stated: right after the delete of the row under the largest key k,
\* next_id returns a key that is not above k, and k itself when the key one
\* below k is still stored; after the delete of a key below a stored key,
\* next_id does not return the freed key.
NextIdAfterDelete ==
    (Succeeded("delete") /\ LastTable.autokey) =>
        LET T == LastTable
            k == last.id
            rest == DOMAIN db[T.table]
        IN  \A r \in table_next_id(db, T) :
                IF \A j \in rest : KeyLess(T.keyty, j, k)
                THEN /\ r.tag = "Ok"
                     /\ ~KeyLess(T.keyty, k, r.val)
                     /\ (\E j \in rest : WrappingAddOne(j) = k) => r.val = k
                ELSE r.tag = "Ok" => r.val # k

\* the values of declaration d that the last call's row had before the call
\* (update, delete) and has after it (insert, update)
TouchedValues(d) ==
    (IF last.op \in {"update", "delete"} THEN {Field(Stored, d.prop)} ELSE {})
        \cup (IF last.op \in {"insert", "update"} THEN {Field(last.row, d.prop)} ELSE {})

\* C34: a successful insert, update or delete of key k leaves every other row
\* of the store as it was, makes the store one row larger, as large, or one
\* row smaller, and changes index entries only for the values of the old and
\* the new row of k, and there only by the key k.
OnlyOwnKeyChanges ==
    (last.op \in {"insert", "update", "delete"} /\ last.result.tag = "Ok") =>
        LET T == LastTable
            k == last.id
            before == last.pre[T.table]
            after == db[T.table]
        IN  /\ (DOMAIN after) \ {k} = (DOMAIN before) \ {k}
            /\ \A j \in (DOMAIN after) \ {k} : after[j] = before[j]
            /\ Cardinality(DOMAIN after) =
                   Cardinality(DOMAIN before)
                       + (CASE last.op = "insert" -> 1
                            [] last.op = "update" -> 0
                            [] last.op = "delete" -> -1)
            /\ \A i \in DeclsOf(T, "unique") \cup DeclsOf(T, "index") :
                   LET d == T.indices[i]
                       idx0 == last.pre[d.name]
                       idx == db[d.name]
                   IN  /\ (DOMAIN idx) \ TouchedValues(d) = (DOMAIN idx0) \ TouchedValues(d)
                       /\ \A v \in (DOMAIN idx) \ TouchedValues(d) : idx[v] = idx0[v]
                       /\ d.itype = "index" =>
                              \A v \in TouchedValues(d) :
                                  Lookup(idx, v) \ {k} = Lookup(idx0, v) \ {k}

\* a second user, of the age and name of the stored one, was inserted
OnlyOwnKeyChangesWitness ==
    /\ schema = "tests"
    /\ Succeeded("insert")
    /\ Cardinality(DOMAIN db.users) = 2
    /\ Lookup(last.pre.users_by_age, last.row.age) # {}
    /\ Lookup(last.pre.users_by_name, last.row.name) # {}

\* C35: right after a successful update to new that returned old, the update
\* to old succeeds, returns new, and leaves the store and every index as they
\* were before the first update.
UpdateThenUpdateBack ==
    Succeeded("update") =>
        table_update(db, LastTable, last.result.val) = Outcome(last.pre, Ok(last.row))

\* a user, the only one of its age and location and one of two stored, got
\* another first name, city and country
UpdateThenUpdateBackWitness ==
    /\ schema = "compound"
    /\ Succeeded("update")
    /\ Cardinality(DOMAIN db.users) = 2
    /\ Stored.first # last.row.first
    /\ Stored.city # last.row.city
    /\ Stored.country # last.row.country
    /\ last.pre.users_by_location[<<Stored.city, Stored.country>>] = {last.id}

\* a delete that did not return Ok, in place of the database it would have left
Refused == [refused |-> TRUE]

\* the databases that $table_delete of every key of ids, in every order, ends
\* in; Refused for an order in which some delete did not return Ok
RECURSIVE DeleteAll(_, _, _)
DeleteAll(d0, T, ids) ==
    IF ids = {} THEN {d0}
    ELSE UNION { LET o == table_delete(d0, T, k)
                 IN  IF o.result.tag # "Ok" THEN {Refused}
                     ELSE DeleteAll(o.db, T, ids \ {k}) : k \in ids }

\* C36: from every state of the users/groups database in which the caller is
\* between two calls, deleting every stored user in any order succeeds, then
\* deleting every stored group in any order succeeds, and then the stores and
\* every index are empty.
CanBeEmptied ==
    (schema = "std" /\ Ready) =>
        \A d1 \in DeleteAll(db, UsersTable, DOMAIN db.users) :
            /\ d1 # Refused
            /\ \A d2 \in DeleteAll(d1, GroupsTable, DOMAIN d1.groups) :
                   d2 # Refused /\ d2 = StdDatabase

\* two users in two groups are stored and no call is under way
CanBeEmptiedWitness ==
    /\ schema = "std"
    /\ Ready
    /\ Cardinality(DOMAIN db.users) = 2
    /\ Cardinality(DOMAIN db.users_by_group) = 2

\* C37 as stated: with the declarations of the documented example, an insert
\* of a group whose id is stored in the groups table fails with GroupIdExists
\* and the stored group stays as it is.
DocGroupIdExists ==
    (schema = "doc" /\ last.op = "insert" /\ last.table = "groups"
        /\ Has(last.pre.groups, last.id)) =>
        /\ last.result = Err("GroupIdExists")
        /\ db.groups = last.pre.groups

\* the databases the last call passed through
LastSteps ==
    CASE last.op = "insert" -> insert_steps(last.pre, LastTable, last.row)
      [] last.op = "update" -> update_steps(last.pre, LastTable, last.row)
      [] last.op = "delete" -> delete_steps(last.pre, LastTable, last.id)

\* C38: a call passes from the database it found, with every check done, to
\* the database it leaves; a refused call mutates nothing; a successful call
\* goes through every declared index with the primary store still as it was
\* found, and writes the primary store, and nothing else, as its last step;
\* and between calls every unique and every grouping index agrees with the store.
ChecksThenIndicesThenStore ==
    /\ last.op \in {"insert", "update", "delete"} =>
           LET tr == LastSteps
               n == Len(tr)
               t == last.table
           IN  /\ tr[1] = last.pre
               /\ tr[n] = db
               /\ last.result.tag = "Err" => n = 1
               /\ last.result.tag = "Ok" =>
                      /\ n = Len(LastTable.indices) + 2
                      /\ \A i \in 1..(n - 1) : tr[i][t] = last.pre[t]
                      /\ \A c \in (DOMAIN db) \ {t} : tr[n][c] = tr[n - 1][c]
    /\ UniqueIndexExact
    /\ GroupingIndexExact

\* a user was inserted into a populated database: when the last index had been
\* written both unique indices held the user's key and the store did not
ChecksThenIndicesThenStoreWitness ==
    /\ schema = "std"
    /\ Succeeded("insert")
    /\ last.table = "users"
    /\ DOMAIN last.pre.users # {}
    /\ LET before == LastSteps[Len(LastSteps) - 1]
       IN  /\ before.user_by_email[last.row.email] = last.id
           /\ before.user_by_name[last.row.name] = last.id
           /\ ~Has(before.users, last.id)
           /\ Has(db.users, last.id)

====
